---- MODULE Spec2Model ----
(***************************************************************************)
(* Model of uo/__init__.py: ComputationPipeline (constructor and __call__), *)
(* validate_pipeline_steps and add_step.                                   *)
(*                                                                         *)
(* Python values are records [t, v, n, items]: t is the type name, v a     *)
(* string payload, n an integer payload, items the elements of a sequence  *)
(* or the <<keys, values>> of a dict.  The pipeline object is modelled by   *)
(* its instance dictionary, a function from attribute names to values, so  *)
(* that setattr(self, func_name, obj) can shadow self.step_names and       *)
(* self.call_method_for_func_name exactly as it does in Python.            *)
(***************************************************************************)
EXTENDS Integers, Sequences, FiniteSets, TLC

VARIABLES
    pipeline,   \* the instance dictionary of the ComputationPipeline object
    last,       \* the latest operation: inputs, outcome, invocations, object before
    built,      \* the steps the constructor was given when it built the object
    given,      \* built, followed by the steps add_step has since accepted
    clean       \* no add_step so far raised after changing the object

vars == <<pipeline, last, built, given, clean>>

(* ------------------------------ bounds --------------------------------- *)

\* longest step list handed to the constructor or to validate_pipeline_steps
MaxInit == 2

\* add_step is explored while step_names is shorter than this
MaxSteps == 3

(* --------------------------- Python values ----------------------------- *)

PyStr(s) == [t |-> "str", v |-> s, n |-> 0, items |-> <<>>]

PyInt(k) == [t |-> "int", v |-> "", n |-> k, items |-> <<>>]

PyBool(b) == [t |-> "bool", v |-> "", n |-> IF b THEN 1 ELSE 0, items |-> <<>>]

PyNone == [t |-> "NoneType", v |-> "", n |-> 0, items |-> <<>>]

PyFunc(id) == [t |-> "function", v |-> id, n |-> 0, items |-> <<>>]

PyTuple(xs) == [t |-> "tuple", v |-> "", n |-> 0, items |-> xs]

PyList(xs) == [t |-> "list", v |-> "", n |-> 0, items |-> xs]

\* a dict holds its keys and its values as two tuples of equal length
PyDict(ks, vs) == [t |-> "dict", v |-> "", n |-> 0, items |-> <<PyTuple(ks), PyTuple(vs)>>]

\* obj.name for a name the object has: a bound method
PyMethod(obj, name) == [t |-> "method", v |-> name, n |-> 0, items |-> <<obj>>]

\* functools.partial(func, *args, **keywords): args a sequence, keywords a dict
PyPartial(func, args, kw) == [t |-> "partial", v |-> "", n |-> 0, items |-> <<func, PyTuple(args), kw>>]

Ok(val) == [exc |-> "none", val |-> val]

Raise(e) == [exc |-> e, val |-> PyNone]

IsSized(x) == x.t \in {"tuple", "list"}

isinstance_str(x) == x.t = "str"

isinstance_tuple(x) == x.t = "tuple"

isinstance_dict(x) == x.t = "dict"

\* a callable() that takes every object for callable
callable_anything(x) == TRUE

callable(x) == x.t \in {"function", "method", "partial"}

DictKeys(d) == d.items[1].items

DictVals(d) == d.items[2].items

DictHas(d, k) == \E i \in 1..Len(DictKeys(d)) : DictKeys(d)[i] = k

DictGet(d, k) == DictVals(d)[CHOOSE i \in 1..Len(DictKeys(d)) : DictKeys(d)[i] = k]

\* a d.setdefault(k, val): an existing key keeps its value
DictSet_keeping_first(d, k, val) ==
    IF DictHas(d, k) THEN d
    ELSE PyDict(Append(DictKeys(d), k), Append(DictVals(d), val))

\* d[k] = val: an existing key keeps its position, a new key goes last
DictSet(d, k, val) ==
    IF DictHas(d, k)
    THEN PyDict(DictKeys(d),
                [i \in 1..Len(DictVals(d)) |->
                    IF DictKeys(d)[i] = k THEN val ELSE DictVals(d)[i]])
    ELSE PyDict(Append(DictKeys(d), k), Append(DictVals(d), val))

\* the attribute names of the objects used as targets: a function has
\* __call__, an int has __add__
AttrNames(obj) ==
    CASE obj.t = "function" -> {"__call__"}
      [] obj.t = "int" -> {"__add__"}
      [] OTHER -> {}

\* getattr(obj, name): the name must be a str and an attribute of obj
getattr(obj, name) ==
    IF ~isinstance_str(name) THEN Raise("TypeError")
    ELSE IF name.v \notin AttrNames(obj) THEN Raise("AttributeError")
    ELSE Ok(PyMethod(obj, name.v))

\* setattr(self, name, obj) on the instance dictionary
setattr(self, name, obj) ==
    IF ~isinstance_str(name) THEN Raise("TypeError")
    ELSE Ok([a \in DOMAIN self \cup {name.v} |-> IF a = name.v THEN obj ELSE self[a]])

(* ------------------------- calling a value ----------------------------- *)

NoKw == {}

KwKeys(kw) == {e.key : e \in kw}

KwGet(kw, k, default) == IF k \in KwKeys(kw) THEN (CHOOSE e \in kw : e.key = k).val ELSE default

\* the ** of a dict of keyword arguments
KwOfDict(d) == {[key |-> DictKeys(d)[i].v, val |-> DictVals(d)[i]] : i \in 1..Len(DictKeys(d))}

AllInts(args) == \A i \in 1..Len(args) : args[i].t = "int"

\* the functions used as step targets:
\*   add2   lambda x: x + 2              mul10  lambda x: x * 10
\*   boom   lambda x: x // 0             lin    lambda a, b, x, k=0: a * x + b + k
FuncBody(id, args, kw) ==
    CASE id = "add2" ->
           IF Len(args) = 1 /\ kw = NoKw /\ AllInts(args)
           THEN Ok(PyInt(args[1].n + 2)) ELSE Raise("TypeError")
      [] id = "mul10" ->
           IF Len(args) = 1 /\ kw = NoKw /\ AllInts(args)
           THEN Ok(PyInt(args[1].n * 10)) ELSE Raise("TypeError")
      [] id = "boom" ->
           IF Len(args) = 1 /\ kw = NoKw /\ AllInts(args)
           THEN Raise("ZeroDivisionError") ELSE Raise("TypeError")
      [] id = "lin" ->
           IF Len(args) = 3 /\ KwKeys(kw) \subseteq {"k"} /\ AllInts(args)
              /\ KwGet(kw, "k", PyInt(0)).t = "int"
           THEN Ok(PyInt(args[1].n * args[3].n + args[2].n + KwGet(kw, "k", PyInt(0)).n))
           ELSE Raise("TypeError")
      [] OTHER -> Raise("TypeError")

RECURSIVE CallValue(_, _, _)
\* f(*args, **kw)
CallValue(f, args, kw) ==
    CASE f.t = "function" -> FuncBody(f.v, args, kw)
      [] f.t = "method" /\ f.v = "__call__" -> CallValue(f.items[1], args, kw)
      [] f.t = "method" /\ f.v = "__add__" ->
           IF Len(args) = 1 /\ kw = NoKw
           THEN IF args[1].t = "int" THEN Ok(PyInt(f.items[1].n + args[1].n))
                ELSE Ok([t |-> "NotImplementedType", v |-> "", n |-> 0, items |-> <<>>])
           ELSE Raise("TypeError")
      [] f.t = "partial" ->
           CallValue(f.items[1], f.items[2].items \o args,
                     {e \in KwOfDict(f.items[3]) : e.key \notin KwKeys(kw)} \cup kw)
      [] OTHER -> Raise("TypeError")

(* ------------------- get_step_func_name_obj_and_call_method ------------ *)

SubSeqFrom(xs, i) == IF i > Len(xs) THEN <<>> ELSE SubSeq(xs, i, Len(xs))

\* step[2:] keeps the type of step
SliceFrom2(step) == [step EXCEPT !.items = SubSeqFrom(step.items, 3)]

\* a resolver whose default method name is "call"
get_step_defaulting_to_call(step) ==
    IF Len(step.items) = 2
    THEN Ok(<<step.items[1], step.items[2], PyStr("call")>>)
    ELSE IF Len(step.items) = 3
    THEN Ok(<<step.items[1], step.items[2], step.items[3]>>)
    ELSE IF Len(step.items) < 2
    THEN Raise("IndexError")
    ELSE Ok(<<step.items[1], step.items[2], SliceFrom2(step)>>)

get_step_func_name_obj_and_call_method(step) ==
    IF Len(step.items) = 2
    THEN Ok(<<step.items[1], step.items[2], PyStr("__call__")>>)
    ELSE IF Len(step.items) = 3
    THEN Ok(<<step.items[1], step.items[2], step.items[3]>>)
    ELSE IF Len(step.items) < 2
    THEN Raise("IndexError")
    ELSE Ok(<<step.items[1], step.items[2], SliceFrom2(step)>>)

(* ----------------------- ComputationPipeline.__init__ ------------------ *)

Done(self) == [exc |-> "none", obj |-> self]

Fail(e, self) == [exc |-> e, obj |-> self]

\* the object after self.step_names = list() and
\* self.call_method_for_func_name = dict()
NewObject == [step_names |-> PyList(<<>>), call_method_for_func_name |-> PyDict(<<>>, <<>>)]

\* no object: the constructor has not run, or it raised
NoObject == [none |-> PyNone]

Exists(self) == "step_names" \in DOMAIN self

\* one iteration of the constructor's loop over the resolved steps
InitBody(self, step) ==
    LET r == get_step_func_name_obj_and_call_method(step) IN
    IF r.exc # "none" THEN Fail(r.exc, self) ELSE
    LET func_name == r.val[1]
        obj == r.val[2]
        call_method == r.val[3]
        s1 == setattr(self, func_name, obj) IN
    IF s1.exc # "none" THEN Fail(s1.exc, self) ELSE
    LET self1 == s1.val IN
    IF self1.step_names.t # "list" THEN Fail("AttributeError", self1) ELSE
    LET self2 == [self1 EXCEPT !.step_names = PyList(Append(@.items, func_name))]
        func == getattr(obj, call_method) IN
    IF func.exc # "none" THEN Fail(func.exc, self2) ELSE
    IF isinstance_str(call_method)
    THEN IF ~isinstance_dict(self2.call_method_for_func_name)
         THEN Fail("TypeError", self2)
         ELSE Done([self2 EXCEPT !.call_method_for_func_name = DictSet(@, func_name, func.val)])
    ELSE IF IsSized(call_method) /\ Len(call_method.items) = 2
            /\ isinstance_str(call_method.items[1])
         THEN LET partial_args_and_keywords == call_method.items[2] IN
              IF isinstance_dict(partial_args_and_keywords)
              THEN IF ~DictHas(partial_args_and_keywords, PyStr("args"))
                      \/ ~DictHas(partial_args_and_keywords, PyStr("keywords"))
                   THEN Fail("KeyError", self2)
                   ELSE IF ~isinstance_dict(self2.call_method_for_func_name)
                   THEN Fail("TypeError", self2)
                   ELSE Done([self2 EXCEPT !.call_method_for_func_name =
                          DictSet(@, func_name,
                            PyPartial(func.val,
                                      DictGet(partial_args_and_keywords, PyStr("args")).items,
                                      DictGet(partial_args_and_keywords, PyStr("keywords"))))])
              ELSE Fail("TypeError", self2)
         ELSE Fail("TypeError", self2)

RECURSIVE InitLoop(_, _, _)
InitLoop(steps, i, self) ==
    IF i > Len(steps) THEN Done(self)
    ELSE LET r == InitBody(self, steps[i]) IN
         IF r.exc # "none" THEN Fail(r.exc, NoObject)
         ELSE InitLoop(steps, i + 1, r.obj)

\* ComputationPipeline(steps): the object built, or the exception raised
ComputationPipeline(steps) ==
    IF ~(Len(steps) > 0) THEN Fail("AssertionError", NoObject)
    ELSE InitLoop(steps, 1, NewObject)

(* ----------------------- ComputationPipeline.__call__ ------------------ *)

Returned(x, trace) == [exc |-> "none", val |-> x, trace |-> trace]

Raised(e, trace) == [exc |-> e, val |-> PyNone, trace |-> trace]

Invocation(i, func_name, f, args, kw) ==
    [pos |-> i, name |-> func_name, f |-> f, args |-> args, kw |-> kw]

RECURSIVE CallLoop_swallowing(_, _, _, _)
\* a loop that goes on to the next step, with None, when a step raises
CallLoop_swallowing(self, i, x, trace) ==
    IF i > Len(self.step_names.items) THEN Returned(x, trace)
    ELSE LET func_name == self.step_names.items[i] IN
         IF ~DictHas(self.call_method_for_func_name, func_name)
         THEN Raised("KeyError", trace)
         ELSE LET f == DictGet(self.call_method_for_func_name, func_name)
                  r == CallValue(f, <<x>>, NoKw)
                  tr == Append(trace, Invocation(i, func_name, f, <<x>>, NoKw)) IN
              CallLoop_swallowing(self, i + 1, r.val, tr)

RECURSIVE CallLoop(_, _, _, _)
\* for func_name in self.step_names[1:]: x = self.call_method_for_func_name[func_name](x)
CallLoop(self, i, x, trace) ==
    IF i > Len(self.step_names.items) THEN Returned(x, trace)
    ELSE LET func_name == self.step_names.items[i] IN
         IF ~DictHas(self.call_method_for_func_name, func_name)
         THEN Raised("KeyError", trace)
         ELSE LET f == DictGet(self.call_method_for_func_name, func_name)
                  r == CallValue(f, <<x>>, NoKw)
                  tr == Append(trace, Invocation(i, func_name, f, <<x>>, NoKw)) IN
              IF r.exc # "none" THEN Raised(r.exc, tr)
              ELSE CallLoop(self, i + 1, r.val, tr)

\* a __call__ whose loop starts one step late
call_skipping_second(self, args, kwargs) ==
    IF self.step_names.t # "list" THEN Raised("TypeError", <<>>)
    ELSE IF Len(self.step_names.items) = 0 THEN Raised("IndexError", <<>>)
    ELSE IF ~isinstance_dict(self.call_method_for_func_name) THEN Raised("TypeError", <<>>)
    ELSE LET func_name == self.step_names.items[1] IN
         IF ~DictHas(self.call_method_for_func_name, func_name)
         THEN Raised("KeyError", <<>>)
         ELSE LET f == DictGet(self.call_method_for_func_name, func_name)
                  r == CallValue(f, args, kwargs)
                  tr == <<Invocation(1, func_name, f, args, kwargs)>> IN
              IF r.exc # "none" THEN Raised(r.exc, tr)
              ELSE CallLoop(self, 3, r.val, tr)

\* self(*args, **kwargs)
ComputationPipeline_call(self, args, kwargs) ==
    IF self.step_names.t # "list" THEN Raised("TypeError", <<>>)
    ELSE IF Len(self.step_names.items) = 0 THEN Raised("IndexError", <<>>)
    ELSE IF ~isinstance_dict(self.call_method_for_func_name) THEN Raised("TypeError", <<>>)
    ELSE LET func_name == self.step_names.items[1] IN
         IF ~DictHas(self.call_method_for_func_name, func_name)
         THEN Raised("KeyError", <<>>)
         ELSE LET f == DictGet(self.call_method_for_func_name, func_name)
                  r == CallValue(f, args, kwargs)
                  tr == <<Invocation(1, func_name, f, args, kwargs)>> IN
              IF r.exc # "none" THEN Raised(r.exc, tr)
              ELSE CallLoop(self, 2, r.val, tr)

(* ------------------------ validate_pipeline_steps ---------------------- *)

FormatMsg == "Step format is incorrect or callable object is not provided."

CallableMsg == "The second element of each step tuple must be a callable object."

MethodMsg == "The third element of the step, if provided, must be a string representing the method name."

Valid == [exc |-> "none", val |-> PyBool(TRUE), msg |-> ""]

Invalid(msg) == [exc |-> "ValueError", val |-> PyNone, msg |-> msg]

RECURSIVE ValidateLoop(_, _)
ValidateLoop(steps, i) ==
    IF i > Len(steps) THEN Valid
    ELSE LET step == steps[i] IN
         IF ~(isinstance_tuple(step) /\ Len(step.items) \in {2, 3})
         THEN Invalid(FormatMsg)
         ELSE IF ~callable(step.items[2])
         THEN Invalid(CallableMsg)
         ELSE IF Len(step.items) = 3 /\ ~isinstance_str(step.items[3])
         THEN Invalid(MethodMsg)
         ELSE ValidateLoop(steps, i + 1)

\* a validator whose loop starts at the second step
validate_skipping_first(steps) == ValidateLoop(steps, 2)

validate_pipeline_steps(steps) == ValidateLoop(steps, 1)

(* ------------------------------- add_step ------------------------------ *)

\* an add_step body that leaves out setattr(pipeline, func_name, obj)
AddBody_without_setattr(self, step) ==
    LET r == get_step_func_name_obj_and_call_method(step) IN
    IF r.exc # "none" THEN Fail(r.exc, self) ELSE
    LET func_name == r.val[1]
        func == getattr(r.val[2], r.val[3]) IN
    IF ~isinstance_str(func_name) THEN Fail("TypeError", self) ELSE
    LET p2 == [self EXCEPT !.step_names = PyList(Append(@.items, func_name))] IN
    IF func.exc # "none" THEN Fail(func.exc, p2)
    ELSE Done([p2 EXCEPT !.call_method_for_func_name = DictSet(@, func_name, func.val)])

\* the body of add_step once validation has returned a true value
AddBody(self, step) ==
    LET r == get_step_func_name_obj_and_call_method(step) IN
    IF r.exc # "none" THEN Fail(r.exc, self) ELSE
    LET func_name == r.val[1]
        obj == r.val[2]
        call_method == r.val[3]
        s1 == setattr(self, func_name, obj) IN
    IF s1.exc # "none" THEN Fail(s1.exc, self) ELSE
    LET p1 == s1.val IN
    IF p1.step_names.t # "list" THEN Fail("AttributeError", p1) ELSE
    LET p2 == [p1 EXCEPT !.step_names = PyList(Append(@.items, func_name))]
        func == getattr(obj, call_method) IN
    IF func.exc # "none" THEN Fail(func.exc, p2) ELSE
    IF isinstance_str(call_method)
    THEN IF ~isinstance_dict(p2.call_method_for_func_name)
         THEN Fail("TypeError", p2)
         ELSE Done([p2 EXCEPT !.call_method_for_func_name = DictSet(@, func_name, func.val)])
    ELSE IF IsSized(call_method) /\ Len(call_method.items) = 2
            /\ isinstance_str(call_method.items[1])
         THEN LET partial_args_and_keywords == call_method.items[2] IN
              IF isinstance_dict(partial_args_and_keywords)
              THEN IF ~DictHas(partial_args_and_keywords, PyStr("args"))
                      \/ ~DictHas(partial_args_and_keywords, PyStr("keywords"))
                   THEN Fail("KeyError", p2)
                   ELSE IF ~isinstance_dict(p2.call_method_for_func_name)
                   THEN Fail("TypeError", p2)
                   ELSE Done([p2 EXCEPT !.call_method_for_func_name =
                          DictSet(@, func_name,
                            PyPartial(func.val,
                                      DictGet(partial_args_and_keywords, PyStr("args")).items,
                                      DictGet(partial_args_and_keywords, PyStr("keywords"))))])
              ELSE Fail("TypeError", p2)
         ELSE Fail("TypeError", p2)

\* an add_step that binds the step before it validates it
add_step_binding_first(self, step) ==
    LET r == AddBody(self, step)
        v == validate_pipeline_steps(<<step>>) IN
    IF v.exc # "none" THEN Fail(v.exc, r.obj) ELSE r

\* add_step(pipeline, step): the pipeline afterwards and the exception, if any
add_step(self, step) ==
    LET v == validate_pipeline_steps(<<step>>) IN
    IF v.exc # "none" THEN Fail(v.exc, self)
    ELSE IF v.val = PyBool(TRUE) THEN AddBody(self, step)
    ELSE Done(self)

(* --------------------------- inputs explored --------------------------- *)

add2 == PyFunc("add2")

mul10 == PyFunc("mul10")

boom == PyFunc("boom")

lin == PyFunc("lin")

five == PyInt(5)

\* {"args": [2, 1], "keywords": {"k": 3}}
ArgsAndKeywords ==
    PyDict(<<PyStr("args"), PyStr("keywords")>>,
           <<PyList(<<PyInt(2), PyInt(1)>>), PyDict(<<PyStr("k")>>, <<PyInt(3)>>)>>)

\* ("__call__", {"args": [2, 1], "keywords": {"k": 3}})
PartialSpec == PyTuple(<<PyStr("__call__"), ArgsAndKeywords>>)

\* (name, target) and (name, target, "__call__") steps over unary functions
DirectSteps ==
    { PyTuple(<<PyStr("f"), add2>>), PyTuple(<<PyStr("g"), mul10>>),
      PyTuple(<<PyStr("g"), boom>>),
      PyTuple(<<PyStr("f"), mul10, PyStr("__call__")>>) }

\* the other step shapes: a method of a non-callable target, a function of
\* several arguments, a missing method, the partial-binding forms, malformed
\* tuples, a list, and names that are not plain attribute names
OtherSteps ==
    { PyTuple(<<PyStr("g"), five, PyStr("__add__")>>),
      PyTuple(<<PyStr("f"), lin>>),
      PyTuple(<<PyStr("f"), five>>),
      PyTuple(<<PyStr("g"), add2, PyStr("transform")>>),
      PyTuple(<<PyStr("g"), add2, PyInt(7)>>),
      PyTuple(<<PyStr("g"), five, PyInt(7)>>),
      PyTuple(<<PyStr("g"), lin, PartialSpec>>),
      PyTuple(<<PyStr("g"), lin, PyStr("__call__"), ArgsAndKeywords>>),
      PyTuple(<<PyStr("f")>>),
      PyList(<<PyStr("g"), mul10>>),
      PyTuple(<<PyInt(1), add2>>),
      PyTuple(<<PyStr("step_names"), add2>>),
      PyTuple(<<PyStr("call_method_for_func_name"), add2>>) }

\* the steps handed to the constructor and to validate_pipeline_steps
StepPool == DirectSteps \cup OtherSteps

\* the steps handed to add_step
AddPool ==
    DirectSteps \cup
    { PyTuple(<<PyStr("g"), five, PyStr("__add__")>>),
      PyTuple(<<PyStr("g"), add2, PyStr("transform")>>),
      PyTuple(<<PyStr("g"), lin, PartialSpec>>),
      PyList(<<PyStr("g"), mul10>>),
      PyTuple(<<PyInt(1), add2>>),
      PyTuple(<<PyStr("step_names"), add2>>),
      PyTuple(<<PyStr("call_method_for_func_name"), add2>>) }

SeqsUpTo(S, k) == UNION {[1..m -> S] : m \in 0..k}

\* the <<args, kwargs>> a pipeline is invoked with
Invocations ==
    { <<<<>>, NoKw>>, <<<<PyInt(0)>>, NoKw>>, <<<<PyInt(3)>>, NoKw>>,
      <<<<PyInt(10)>>, NoKw>>,
      <<<<PyInt(2), PyInt(1), PyInt(3)>>, {[key |-> "k", val |-> PyInt(1)]}>> }

(* ------------------------------ the system ----------------------------- *)

\* last records the latest operation: its inputs, its outcome, the
\* invocations it made and the pipeline it started from
Record(op, steps, args, kwargs, exc, val, msg, trace, pre) ==
    [op |-> op, steps |-> steps, args |-> args, kwargs |-> kwargs, exc |-> exc,
     val |-> val, msg |-> msg, trace |-> trace, pre |-> pre]

Init ==
    /\ pipeline = NoObject
    /\ last = Record("init", <<>>, <<>>, NoKw, "none", PyNone, "", <<>>, NoObject)
    /\ built = <<>>
    /\ given = <<>>
    /\ clean = TRUE

\* p = ComputationPipeline(steps): the object is constructed once
Construct(steps) ==
    /\ last.op = "init"
    /\ LET r == ComputationPipeline(steps) IN
       /\ pipeline' = r.obj
       /\ last' = Record("construct", steps, <<>>, NoKw, r.exc, PyNone, "", <<>>, pipeline)
       /\ built' = IF r.exc = "none" THEN steps ELSE <<>>
       /\ given' = built'
       /\ clean' = TRUE

\* validate_pipeline_steps(steps), on its own
Validate(steps) ==
    /\ last.op = "init"
    /\ LET r == validate_pipeline_steps(steps) IN
       /\ last' = Record("validate", steps, <<>>, NoKw, r.exc, r.val, r.msg, <<>>, pipeline)
       /\ UNCHANGED <<pipeline, built, given, clean>>

\* add_step(p, step)
AddStep(step) ==
    /\ Exists(pipeline)
    /\ last.op # "call"
    /\ pipeline.step_names.t = "list" => Len(pipeline.step_names.items) < MaxSteps
    /\ LET r == add_step(pipeline, step) IN
       /\ pipeline' = r.obj
       /\ last' = Record("add_step", <<step>>, <<>>, NoKw, r.exc, PyNone, "", <<>>, pipeline)
       /\ given' = IF r.exc = "none" THEN Append(given, step) ELSE given
       /\ built' = built
       /\ clean' = (clean /\ (r.exc = "none" \/ r.obj = pipeline))

\* p(*args, **kwargs).  __call__ assigns nothing to the object, so a run is
\* followed up to its first invocation: what could follow it can follow the
\* state before it.
Invoke(args, kwargs) ==
    /\ Exists(pipeline)
    /\ last.op # "call"
    /\ LET r == ComputationPipeline_call(pipeline, args, kwargs) IN
       /\ last' = Record("call", <<>>, args, kwargs, r.exc, r.val, "", r.trace, pipeline)
       /\ UNCHANGED <<pipeline, built, given, clean>>

\* the step lists tried: none once an operation has run
StepLists == IF last.op = "init" THEN SeqsUpTo(StepPool, MaxInit) ELSE {}

Next ==
    \/ \E steps \in StepLists : Construct(steps)
    \/ \E steps \in StepLists : Validate(steps)
    \/ \E step \in AddPool : AddStep(step)
    \/ \E c \in Invocations : Invoke(c[1], c[2])

Spec == Init /\ [][Next]_vars

(* ============================== properties ============================= *)

StepLen(step) == Len(step.items)

\* what the step tuple says about itself, read off its elements
BadShape(step) == step.t # "tuple" \/ StepLen(step) < 2 \/ StepLen(step) > 3

BadTarget(step) == step.items[2].t \notin {"function"}

BadMethod(step) == StepLen(step) = 3 /\ step.items[3].t # "str"

BadStep(step) == BadShape(step) \/ BadTarget(step) \/ BadMethod(step)

ExpectedMsg(step) ==
    IF BadShape(step) THEN FormatMsg
    ELSE IF BadTarget(step) THEN CallableMsg
    ELSE MethodMsg

BadIndexes(steps) == {i \in 1..Len(steps) : BadStep(steps[i])}

FirstIn(S) == CHOOSE i \in S : \A j \in S : i <= j

C5_RejectedStepLeavesPipeline ==
    (last.op = "add_step" /\ BadStep(last.steps[1])) =>
        /\ last.exc = "ValueError"
        /\ pipeline = last.pre
        /\ \A c \in Invocations :
              ComputationPipeline_call(pipeline, c[1], c[2])
                = ComputationPipeline_call(last.pre, c[1], c[2])

C5_Witness ==
    /\ last.op = "add_step"
    /\ BadStep(last.steps[1])
    /\ last.exc = "ValueError"
    /\ Len(last.pre.step_names.items) = 2
    /\ pipeline = last.pre

NameOf(step) == step.items[1]

\* the name is a str other than the object's own attribute names
PlainName(step) ==
    /\ NameOf(step).t = "str"
    /\ NameOf(step).v \notin {"step_names", "call_method_for_func_name"}

\* the method the step names, "__call__" when it names none, is an attribute
\* of the target
MethodPresent(step) ==
    IF StepLen(step) = 2 THEN "__call__" \in AttrNames(step.items[2])
    ELSE step.items[3].v \in AttrNames(step.items[2])

\* C10 as claimed: every non-empty step list that validate_pipeline_steps
\* accepts is constructed without an exception.
C10_ValidatedStepsConstruct ==
    (last.op = "construct" /\ Len(last.steps) > 0
        /\ validate_pipeline_steps(last.steps).exc = "none")
    => last.exc = "none"

\* C10 amended: a non-empty step list that validate_pipeline_steps accepts is
\* constructed without an exception when, in addition, every step's name is a
\* str other than the object's own attribute names and every step's method
\* ("__call__" for a 2-tuple) is an attribute of its target.
C10_ValidatedPlainStepsConstruct ==
    (last.op = "construct" /\ Len(last.steps) > 0
        /\ validate_pipeline_steps(last.steps).exc = "none"
        /\ \A i \in 1..Len(last.steps) :
              StepLen(last.steps[i]) >= 2 =>
                  PlainName(last.steps[i]) /\ MethodPresent(last.steps[i]))
    => (last.exc = "none" /\ Exists(pipeline))

C10_Witness ==
    /\ last.op = "construct"
    /\ Len(last.steps) = 2
    /\ validate_pipeline_steps(last.steps).exc = "none"
    /\ \A i \in 1..2 : PlainName(last.steps[i]) /\ MethodPresent(last.steps[i])
    /\ StepLen(last.steps[2]) = 3
    /\ last.exc = "none"

(* ---- C1 ---- *)

UnaryFunctions == {add2, mul10, boom}

\* a step that calls a unary function directly: (name, f) or (name, f, "__call__")
IsUnaryStep(step) ==
    /\ StepLen(step) \in {2, 3}
    /\ step.items[2] \in UnaryFunctions
    /\ StepLen(step) = 3 => step.items[3] = PyStr("__call__")

DistinctNames(steps) ==
    \A i, j \in 1..Len(steps) : NameOf(steps[i]) = NameOf(steps[j]) => i = j

RECURSIVE ComposeFrom(_, _, _)
\* steps[i](... steps[i+1](x)) read from the step list itself, left to right
ComposeFrom(steps, i, x) ==
    IF i > Len(steps) THEN Ok(x)
    ELSE LET r == FuncBody(steps[i].items[2].v, <<x>>, NoKw) IN
         IF r.exc # "none" THEN r ELSE ComposeFrom(steps, i + 1, r.val)

Compose(steps, args, kwargs) ==
    LET r == FuncBody(steps[1].items[2].v, args, kwargs) IN
    IF r.exc # "none" THEN r ELSE ComposeFrom(steps, 2, r.val)

\* the invocation recorded in last ran on the object as the constructor built it
CalledOnConstructed ==
    /\ last.op = "call"
    /\ Len(built) > 0
    /\ ComputationPipeline(built) = Done(last.pre)

\* the recorded invocations thread the value: the first gets the caller's
\* arguments, each later one the previous return value as its sole argument
Threaded(trace) ==
    /\ Len(trace) >= 1
    /\ trace[1].args = last.args /\ trace[1].kw = last.kwargs
    /\ \A i \in 2..Len(trace) :
          /\ trace[i].kw = NoKw
          /\ trace[i].args = <<CallValue(trace[i-1].f, trace[i-1].args, trace[i-1].kw).val>>

ComposesBuilt ==
    /\ [exc |-> last.exc, val |-> last.val] = Compose(built, last.args, last.kwargs)
    /\ Threaded(last.trace)
    /\ \A i \in 1..Len(last.trace) :
          /\ last.trace[i].name = NameOf(built[i])
          /\ last.trace[i].f = PyMethod(built[i].items[2], "__call__")
    /\ last.exc = "none" =>
          /\ Len(last.trace) = Len(built)
          /\ last.val = CallValue(last.trace[Len(built)].f, last.trace[Len(built)].args,
                                  last.trace[Len(built)].kw).val

\* C1 as claimed: for every non-empty list of steps over directly callable
\* unary functions, ComputationPipeline(steps)(x) is the left-to-right
\* composition of the steps applied to x.
C1_CallComposesSteps ==
    (CalledOnConstructed /\ Len(last.args) = 1 /\ last.kwargs = NoKw
        /\ \A i \in 1..Len(built) : IsUnaryStep(built[i]))
    => ComposesBuilt

\* C1 amended: for every non-empty list of steps over directly callable unary
\* functions whose names are pairwise distinct plain attribute names, the
\* constructor builds the pipeline and ComputationPipeline(steps)(x) is the
\* left-to-right composition of the steps applied to x: the first step's
\* invocable receives the caller's arguments, each later one the previous
\* return value as its sole positional argument, and the result is the last
\* step's return value.
C1_CallComposesDistinctSteps ==
    /\ (last.op = "construct" /\ Len(last.steps) > 0 /\ DistinctNames(last.steps)
          /\ \A i \in 1..Len(last.steps) :
                StepLen(last.steps[i]) >= 2
                /\ IsUnaryStep(last.steps[i]) /\ PlainName(last.steps[i]))
       => (last.exc = "none" /\ built = last.steps)
    /\ (CalledOnConstructed /\ DistinctNames(built)
          /\ \A i \in 1..Len(built) : IsUnaryStep(built[i]))
       => ComposesBuilt

C1_Witness ==
    /\ CalledOnConstructed
    /\ built = <<PyTuple(<<PyStr("f"), add2>>), PyTuple(<<PyStr("g"), mul10>>)>>
    /\ last.args = <<PyInt(10)>> /\ last.kwargs = NoKw
    /\ last.exc = "none" /\ last.val = PyInt(120)

(* ---- C2 ---- *)

\* add_step was called on the object as the constructor built it
AddedToConstructed ==
    /\ last.op = "add_step"
    /\ ComputationPipeline(built) = Done(last.pre)

SameAsConstructed(steps) ==
    LET c == ComputationPipeline(steps) IN
    /\ (last.exc = "none") <=> (c.exc = "none")
    /\ last.exc = "none" =>
          /\ pipeline = c.obj
          /\ pipeline.step_names = c.obj.step_names
          /\ pipeline.call_method_for_func_name = c.obj.call_method_for_func_name
          /\ \A c2 \in Invocations :
                ComputationPipeline_call(pipeline, c2[1], c2[2])
                  = ComputationPipeline_call(c.obj, c2[1], c2[2])

\* C2 as claimed: add_step(ComputationPipeline([A, B]), C) accepts C exactly
\* when the constructor accepts [A, B, C], and then leaves the pipeline the
\* constructor builds from [A, B, C].
C2_AddStepEqualsConstruct ==
    AddedToConstructed => SameAsConstructed(Append(built, last.steps[1]))

\* C2 amended: for every step C that validate_pipeline_steps accepts,
\* add_step(ComputationPipeline([A, B]), C) returns exactly when the
\* constructor accepts [A, B, C], and then leaves the pipeline the constructor
\* builds from [A, B, C]: the same step_names, call table, exposed attributes
\* and outcome of every invocation.
C2_AddValidStepEqualsConstruct ==
    (AddedToConstructed /\ ~BadStep(last.steps[1]))
    => SameAsConstructed(Append(built, last.steps[1]))

C2_Witness ==
    /\ AddedToConstructed
    /\ Len(built) = 2
    /\ ~BadStep(last.steps[1])
    /\ last.exc = "none"
    /\ Len(pipeline.step_names.items) = 3

(* ---- C3 ---- *)

PartialStep == PyTuple(<<PyStr("g"), lin, PartialSpec>>)

\* C3: a step in the partial-binding form, here
\* ("g", lin, ("__call__", {"args": [2, 1], "keywords": {"k": 3}})) after a
\* unary first step, is accepted by the constructor, and invoking the pipeline
\* calls lin(2, 1, x, k=3) with x the first step's return value.
C3_PartialBindingAccepted ==
    (last.op = "construct" /\ Len(last.steps) = 2
        /\ IsUnaryStep(last.steps[1]) /\ PlainName(last.steps[1])
        /\ last.steps[2] = PartialStep)
    => /\ last.exc = "none"
       /\ Exists(pipeline)
       /\ \A x \in {0, 3, 10} :
             LET first == FuncBody(last.steps[1].items[2].v, <<PyInt(x)>>, NoKw)
                 r == ComputationPipeline_call(pipeline, <<PyInt(x)>>, NoKw) IN
             first.exc = "none" =>
                 /\ r.exc = "none"
                 /\ r.val = FuncBody("lin", <<PyInt(2), PyInt(1), first.val>>,
                                     {[key |-> "k", val |-> PyInt(3)]}).val

(* ---- C6 ---- *)

\* (name, target) with a callable target
IsTwoCallable(step) ==
    step.t = "tuple" /\ StepLen(step) = 2 /\ step.items[2].t = "function"

\* (name, target, "__call__")
WithCallName(step) == [step EXCEPT !.items = Append(@, PyStr("__call__"))]

ReplaceAt(steps, i, step) == [steps EXCEPT ![i] = step]

SameInvocations(p, q) ==
    Exists(p) => \A c \in Invocations :
        ComputationPipeline_call(p, c[1], c[2]) = ComputationPipeline_call(q, c[1], c[2])

\* C6: for a callable target, the step (name, target) is resolved and bound
\* as (name, target, "__call__") is, by the constructor and by add_step: the
\* same exception or the same step_names, call table and attributes, and the
\* same outcome of every invocation.
C6_TwoTupleIsCallForm ==
    /\ last.op = "construct" =>
          \A i \in 1..Len(last.steps) :
              IsTwoCallable(last.steps[i]) =>
                  LET c == ComputationPipeline(
                               ReplaceAt(last.steps, i, WithCallName(last.steps[i]))) IN
                  /\ c.exc = last.exc
                  /\ c.obj = pipeline
                  /\ SameInvocations(pipeline, c.obj)
    /\ (last.op = "add_step" /\ IsTwoCallable(last.steps[1])) =>
          LET a == add_step(last.pre, WithCallName(last.steps[1])) IN
          /\ a.exc = last.exc
          /\ a.obj = pipeline
          /\ SameInvocations(pipeline, a.obj)

C6_Witness ==
    /\ last.op = "add_step"
    /\ IsTwoCallable(last.steps[1])
    /\ last.exc = "none"
    /\ add_step(last.pre, WithCallName(last.steps[1])).obj = pipeline
    /\ Len(pipeline.step_names.items) = 3

(* ---- C7 ---- *)

\* C7: after a successful construction and any add_step calls, returning or
\* raising, every name in step_names is a key of call_method_for_func_name,
\* and no invocation raises KeyError.
C7_StepNamesHaveInvocables ==
    /\ (Exists(pipeline) /\ pipeline.step_names.t = "list"
          /\ isinstance_dict(pipeline.call_method_for_func_name)) =>
          \A i \in 1..Len(pipeline.step_names.items) :
              DictHas(pipeline.call_method_for_func_name, pipeline.step_names.items[i])
    /\ last.op = "call" => last.exc # "KeyError"

(* ---- C8 ---- *)

\* the invocable the step binds: the named method of its target
InvocableOf(step) ==
    PyMethod(step.items[2], IF StepLen(step) = 2 THEN "__call__" ELSE step.items[3].v)

LastNamed(steps, name) ==
    CHOOSE j \in 1..Len(steps) :
        /\ NameOf(steps[j]) = name
        /\ \A k \in 1..Len(steps) : NameOf(steps[k]) = name => k <= j

FreshNames == <<"n1", "n2", "n3", "n4", "n5">>

Renamed(step, name) == [step EXCEPT !.items = [@ EXCEPT ![1] = PyStr(name)]]

RepeatsEarlier(steps, i) ==
    PlainName(steps[i]) /\ \E k \in 1..(i - 1) : NameOf(steps[k]) = NameOf(steps[i])

\* the same steps with every repeated name replaced by a new one
WithoutRepeats(steps) ==
    [i \in 1..Len(steps) |->
        IF RepeatsEarlier(steps, i) THEN Renamed(steps[i], FreshNames[i]) ELSE steps[i]]

\* C8: a step whose name an earlier step already uses raises nothing that the
\* same step under a new name would not raise; once accepted, its target and
\* its invocable replace the earlier ones in the attribute and the call
\* table, its name is appended to step_names once more, and an invocation
\* runs the later step's invocable at every position of that name.
C8_LaterStepReplacesEarlier ==
    /\ (last.op = "construct" /\ \E i \in 1..Len(last.steps) : RepeatsEarlier(last.steps, i)) =>
          /\ last.exc = ComputationPipeline(WithoutRepeats(last.steps)).exc
          /\ last.exc = "none" =>
                /\ pipeline.step_names.items
                     = [i \in 1..Len(last.steps) |-> NameOf(last.steps[i])]
                /\ \A i \in 1..Len(last.steps) :
                      LET name == NameOf(last.steps[i])
                          later == last.steps[LastNamed(last.steps, name)] IN
                      /\ pipeline[name.v] = later.items[2]
                      /\ DictGet(pipeline.call_method_for_func_name, name) = InvocableOf(later)
    /\ (last.op = "add_step" /\ last.pre.step_names.t = "list" /\ PlainName(last.steps[1])
          /\ \E i \in 1..Len(last.pre.step_names.items) :
                last.pre.step_names.items[i] = NameOf(last.steps[1])) =>
          /\ last.exc = add_step(last.pre, Renamed(last.steps[1], "n1")).exc
          /\ last.exc = "none" =>
                /\ pipeline.step_names.items
                     = Append(last.pre.step_names.items, NameOf(last.steps[1]))
                /\ pipeline[NameOf(last.steps[1]).v] = last.steps[1].items[2]
                /\ DictGet(pipeline.call_method_for_func_name, NameOf(last.steps[1]))
                     = InvocableOf(last.steps[1])
    /\ (last.op = "call" /\ clean) =>
          \A i \in 1..Len(last.trace) :
              /\ last.trace[i].name = NameOf(given[last.trace[i].pos])
              /\ last.trace[i].f = InvocableOf(given[LastNamed(given, last.trace[i].name)])

C8_Witness ==
    /\ last.op = "call" /\ clean
    /\ Len(given) = 2
    /\ NameOf(given[1]) = NameOf(given[2])
    /\ InvocableOf(given[1]) # InvocableOf(given[2])
    /\ last.exc = "none"
    /\ Len(last.trace) = 2
    /\ last.trace[1].f = InvocableOf(given[2])
    /\ last.trace[2].f = InvocableOf(given[2])

(* ---- C9 ---- *)

RaisedAt(trace, i) == CallValue(trace[i].f, trace[i].args, trace[i].kw).exc # "none"

\* C9: when the invocable at position i raises, the invocation ends with that
\* exception: the positions invoked are 1..i, each once, nothing is returned,
\* and the pipeline object is as it was before the invocation.
C9_RaisingStepEndsInvocation ==
    last.op = "call" =>
        /\ \A i \in 1..Len(last.trace) :
              /\ last.trace[i].pos = i
              /\ last.trace[i].name = pipeline.step_names.items[i]
              /\ RaisedAt(last.trace, i) =>
                    /\ i = Len(last.trace)
                    /\ last.exc = CallValue(last.trace[i].f, last.trace[i].args,
                                            last.trace[i].kw).exc
                    /\ last.val = PyNone
        /\ pipeline = last.pre

C9_Witness ==
    /\ last.op = "call"
    /\ Len(pipeline.step_names.items) = 3
    /\ Len(last.trace) = 2
    /\ RaisedAt(last.trace, 2)
    /\ last.exc = "ZeroDivisionError"
    /\ pipeline = last.pre

====
